---- MODULE Spec2Model ----
(***************************************************************************)
(* Batch verification dispatcher of the HPCSA search application:          *)
(* HPCSAService (searchBatch, searchSingleAsBatchResult, executeSearch,    *)
(* parseSearchResults) and BatchProcessorService (process,                 *)
(* calculateStatistics).                                                   *)
(*                                                                         *)
(* Strings are sequences of one-character strings, so that trimming,       *)
(* whitespace stripping and lower-casing are computed, not assumed.        *)
(* JavaScript values (the cells of a remote row are `any`) are records     *)
(* [t, s, n]: t is the type tag, s the characters of a string, n the value *)
(* of a number.                                                            *)
(***************************************************************************)
EXTENDS Integers, Sequences, FiniteSets, TLC

\* ---------------------------------------------------------------- bounds
MaxIds == 3          \* longest identifier list submitted
MaxConcurrent == 2   \* largest explicitly configured maxConcurrentRequests
MaxIterations == 5   \* iterations of the searchBatch loop followed in one call
MaxOutcomes == 3     \* longest Outcome list handed to calculateStatistics directly
MaxRows == 3         \* most rows of a parsed file handed to extract

\* ------------------------------------------------------ JavaScript values
Str(chars) == [t |-> "str", s |-> chars, n |-> 0]
Num(k) == [t |-> "num", s |-> <<>>, n |-> k]
Null == [t |-> "null", s |-> <<>>, n |-> 0]
Undefined == [t |-> "undef", s |-> <<>>, n |-> 0]
\* an object decoded from JSON whose own "toString" member is not callable
BadObj == [t |-> "obj", s |-> <<>>, n |-> 0]

EmptyStr == Str(<<>>)

\* JavaScript truthiness
Truthy(v) ==
  \/ v.t = "str" /\ v.s # <<>>
  \/ v.t = "num" /\ v.n # 0
  \/ v.t = "obj"

\* a || b
Or(a, b) == IF Truthy(a) THEN a ELSE b

IsSpace(ch) == ch \in {" ", "\t", "\n"}

RECURSIVE TrimStart(_)
TrimStart(chars) ==
  IF chars # <<>> /\ IsSpace(Head(chars)) THEN TrimStart(Tail(chars)) ELSE chars

RECURSIVE TrimEnd(_)
TrimEnd(chars) ==
  IF chars # <<>> /\ IsSpace(chars[Len(chars)])
  THEN TrimEnd(SubSeq(chars, 1, Len(chars) - 1))
  ELSE chars

\* String.prototype.trim
Trim(chars) == TrimEnd(TrimStart(chars))

\* .replace(/\s+/g, "")
RECURSIVE RemoveWhitespace(_)
RemoveWhitespace(chars) ==
  IF chars = <<>> THEN <<>>
  ELSE IF IsSpace(Head(chars)) THEN RemoveWhitespace(Tail(chars))
  ELSE <<Head(chars)>> \o RemoveWhitespace(Tail(chars))

UpperLetters ==
  << "A", "B", "C", "D", "E", "F", "G", "H", "I", "J", "K", "L", "M",
     "N", "O", "P", "Q", "R", "S", "T", "U", "V", "W", "X", "Y", "Z" >>

LowerLetters ==
  << "a", "b", "c", "d", "e", "f", "g", "h", "i", "j", "k", "l", "m",
     "n", "o", "p", "q", "r", "s", "t", "u", "v", "w", "x", "y", "z" >>

LowerChar(ch) ==
  IF \E k \in 1..26 : UpperLetters[k] = ch
  THEN LowerLetters[CHOOSE k \in 1..26 : UpperLetters[k] = ch]
  ELSE ch

UpperChar(ch) ==
  IF \E k \in 1..26 : LowerLetters[k] = ch
  THEN UpperLetters[CHOOSE k \in 1..26 : LowerLetters[k] = ch]
  ELSE ch

\* String.prototype.toLowerCase
ToLowerCase(chars) == [k \in 1..Len(chars) |-> LowerChar(chars[k])]

\* String.prototype.toUpperCase
ToUpperCase(chars) == [k \in 1..Len(chars) |-> UpperChar(chars[k])]

Digit(d) == <<"0", "1", "2", "3", "4", "5", "6", "7", "8", "9">>[d + 1]

RECURSIVE NumToString(_)
NumToString(k) ==
  IF k < 10 THEN <<Digit(k)>> ELSE NumToString(k \div 10) \o <<Digit(k % 10)>>

\* string conversion of a truthy value (template literal, .toString());
\* ToStringThrows tells when the conversion raises a TypeError instead
ToStringThrows(v) == v.t = "obj"

ToStringJS(v) ==
  CASE v.t = "str" -> v.s
    [] v.t = "num" -> NumToString(v.n)
    [] v.t = "null" -> <<"n", "u", "l", "l">>
    [] OTHER -> <<"u", "n", "d", "e", "f", "i", "n", "e", "d">>

\* ------------------------------------------------- remote response bodies
\* A row of the remote's data is null or a list of cells; row[k] of a list
\* shorter than k+1 is undefined.
Row(cells) == [isNull |-> FALSE, cells |-> cells]
NullRow == [isNull |-> TRUE, cells |-> <<>>]

Cell(row, k) == IF k + 1 <= Len(row.cells) THEN row.cells[k + 1] ELSE Undefined

RowActive ==
  Row(<< Str(<<"D", "r">>), Str(<<"A">>), Str(<<"B">>), Str(<<"M", "P", " ", "1">>),
         Str(<<"C", "T">>), Null, Null, Str(<<"A", "c", "t", "i", "v", "e">>) >>)

RowInactive ==
  Row(<< EmptyStr, Str(<<"N">>), Null, Null,
         Null, Null, Null, Str(<<"I", "n", "a", "c", "t", "i", "v", "e">>) >>)

RowNumStatus ==
  Row(<< Str(<<"D", "r">>), Str(<<"E">>), Null, Str(<<"Z", "Z", "9">>),
         Null, Null, Null, Num(1) >>)

\* HPCSAApiResponse {data, headers, error}; hasData is FALSE when data is
\* null or absent
ApiResponse(error, hasData, data) == [error |-> error, hasData |-> hasData, data |-> data]

\* a row whose registration cell cannot be converted to a string
RowBadRegistration ==
  Row(<< Str(<<"D", "r">>), Str(<<"E">>), Null, BadObj,
         Null, Null, Null, Str(<<"A", "c", "t", "i", "v", "e">>) >>)

BodyNames ==
  {"empty", "nodata", "flag", "blankerr", "active", "two", "numstatus", "nullrow", "badreg"}

Body(name) ==
  CASE name = "empty" -> ApiResponse(Null, TRUE, <<>>)
    [] name = "nodata" -> ApiResponse(Null, FALSE, <<>>)
    [] name = "flag" -> ApiResponse(Str(<<"e", "r", "r">>), TRUE, <<RowActive>>)
    [] name = "blankerr" -> ApiResponse(EmptyStr, TRUE, <<RowActive>>)
    [] name = "active" -> ApiResponse(Null, TRUE, <<RowActive>>)
    [] name = "two" -> ApiResponse(Null, TRUE, <<RowInactive, RowActive>>)
    [] name = "numstatus" -> ApiResponse(Null, TRUE, <<RowNumStatus>>)
    [] name = "badreg" -> ApiResponse(Null, TRUE, <<RowActive, RowBadRegistration>>)
    [] OTHER -> ApiResponse(Null, TRUE, <<NullRow>>)

\* --------------------------------------------------- parseSearchResults
\* the early return of parseSearchResults, with the check of the error field
\* left out
ParseReturnsEmptyIgnoringError(result) ==
  \/ ~result.hasData
  \/ Len(result.data) = 0

\* the early return of parseSearchResults
ParseReturnsEmpty(result) ==
  \/ Truthy(result.error)
  \/ ~result.hasData
  \/ Len(result.data) = 0

\* the row mapping raises a TypeError: a null row, or a cell whose string
\* conversion (template literal, .toString()) is not possible
MapRowThrows(row, registrationNumber) ==
  \/ row.isNull
  \/ \E k \in 0..2 : ToStringThrows(Or(Cell(row, k), EmptyStr))
  \/ ToStringThrows(Or(Cell(row, 3), Str(registrationNumber)))

\* a mapping that leaves the registration as the remote wrote it
MapRowKeepingWhitespace(row, registrationNumber) ==
  [ name |-> Str(Trim(ToStringJS(Or(Cell(row, 0), EmptyStr)) \o <<" ">>
                      \o ToStringJS(Or(Cell(row, 1), EmptyStr)) \o <<" ">>
                      \o ToStringJS(Or(Cell(row, 2), EmptyStr)))),
    registration |-> Str(ToStringJS(Or(Cell(row, 3), Str(registrationNumber)))),
    city |-> Or(Cell(row, 4), EmptyStr),
    status |-> Or(Cell(row, 7), EmptyStr) ]

MapRow(row, registrationNumber) ==
  [ name |-> Str(Trim(ToStringJS(Or(Cell(row, 0), EmptyStr)) \o <<" ">>
                      \o ToStringJS(Or(Cell(row, 1), EmptyStr)) \o <<" ">>
                      \o ToStringJS(Or(Cell(row, 2), EmptyStr)))),
    registration |->
      Str(RemoveWhitespace(ToStringJS(Or(Cell(row, 3), Str(registrationNumber))))),
    city |-> Or(Cell(row, 4), EmptyStr),
    status |-> Or(Cell(row, 7), EmptyStr) ]

\* a parse that raises on a payload error flag instead of returning no record
parseSearchResultsThrowingOnError(result, registrationNumber) ==
  IF Truthy(result.error)
  THEN [threw |-> TRUE, records |-> <<>>]
  ELSE IF ParseReturnsEmpty(result)
  THEN [threw |-> FALSE, records |-> <<>>]
  ELSE IF \E k \in 1..Len(result.data) : MapRowThrows(result.data[k], registrationNumber)
  THEN [threw |-> TRUE, records |-> <<>>]
  ELSE [threw |-> FALSE,
        records |-> [k \in 1..Len(result.data) |-> MapRow(result.data[k], registrationNumber)]]

\* [threw, records]: threw when the mapping raises, else the HPCSARecord list
parseSearchResults(result, registrationNumber) ==
  IF ParseReturnsEmpty(result)
  THEN [threw |-> FALSE, records |-> <<>>]
  ELSE IF \E k \in 1..Len(result.data) : MapRowThrows(result.data[k], registrationNumber)
  THEN [threw |-> TRUE, records |-> <<>>]
  ELSE [threw |-> FALSE,
        records |-> [k \in 1..Len(result.data) |-> MapRow(result.data[k], registrationNumber)]]

\* ------------------------------------------------------ BatchSearchResult
\* the found=false literal returned when the parsed record list is empty
NotFoundResult(registrationNumber) ==
  [ registration |-> Str(registrationNumber), name |-> EmptyStr, city |-> EmptyStr,
    status |-> EmptyStr, found |-> FALSE ]

\* { ...record, found: true }
FoundResult(record) ==
  [ registration |-> record.registration, name |-> record.name, city |-> record.city,
    status |-> record.status, found |-> TRUE ]

\* the value of a lookup that has not settled yet
Unsettled ==
  [ registration |-> Undefined, name |-> Undefined, city |-> Undefined,
    status |-> Undefined, found |-> FALSE ]

\* the tail of the try blocks of searchSingleAsBatchResult: records -> result
ToBatchResult(records, registrationNumber) ==
  IF Len(records) = 0 THEN NotFoundResult(registrationNumber)
  ELSE FoundResult(records[1])

\* the result returned by the inner catch, mis-built without the identifier
RetryExhaustedResultBlank(registrationNumber) ==
  [ registration |-> EmptyStr, name |-> EmptyStr, city |-> EmptyStr,
    status |-> EmptyStr, found |-> FALSE ]

\* the result returned by the inner catch (both attempts failed)
RetryExhaustedResult(registrationNumber) ==
  [ registration |-> Str(registrationNumber), name |-> EmptyStr, city |-> EmptyStr,
    status |-> EmptyStr, found |-> FALSE ]

\* --------------------------------------------------- calculateStatistics
Active == <<"a", "c", "t", "i", "v", "e">>

\* r.status.toLowerCase() raises a TypeError when status is not a string;
\* it is evaluated only when r.found holds
StatusLowerThrows(r) == r.found /\ r.status.t # "str"

IsActive(r) == r.found /\ ToLowerCase(r.status.s) = Active

\* an inactive bucket that takes only the status "inactive"
IsInactiveByName(r) ==
  r.found /\ ToLowerCase(r.status.s) = <<"i", "n", "a", "c", "t", "i", "v", "e">>

IsInactive(r) == r.found /\ ToLowerCase(r.status.s) # Active
IsNotFound(r) == ~r.found

NoStatistics ==
  [activeCount |-> 0, inactiveCount |-> 0, notFoundCount |-> 0, totalProcessed |-> 0]

\* a total that leaves out the Outcomes that were not found
TotalProcessedFoundOnly(results) ==
  Cardinality({k \in 1..Len(results) : results[k].found})

\* totalProcessed: results.length
TotalProcessed(results) == Len(results)

\* [threw, statistics]
calculateStatistics(results) ==
  IF \E k \in 1..Len(results) : StatusLowerThrows(results[k])
  THEN [threw |-> TRUE, statistics |-> NoStatistics]
  ELSE [threw |-> FALSE,
        statistics |->
          [ activeCount |-> Cardinality({k \in 1..Len(results) : IsActive(results[k])}),
            inactiveCount |-> Cardinality({k \in 1..Len(results) : IsInactive(results[k])}),
            notFoundCount |-> Cardinality({k \in 1..Len(results) : IsNotFound(results[k])}),
            totalProcessed |-> TotalProcessed(results) ]]

\* ------------------------------------------ RegistrationExtractorService
\* defaultFieldMappings: the column names tried, in order, for each field
AttendedFields == <<"Attended", "attended", "ATTENDED", "Did Attend", "did_attend">>

ProfessionalCouncilNameFields ==
  << "Professional council name", "professional council name",
     "Professional Council Name", "Council Name", "council name", "CouncilName" >>

CsvRegistrationFields ==
  << "Professional council number", "professional council number",
     "Professional Council Number", "Council Number", "council number",
     "CouncilNumber" >>

ExcelRegistrationFields ==
  << "Registration number", "registration number", "Registration Number",
     "RegistrationNumber", "Registration", "registration", "RegNo", "regNo" >>

fieldMappings(fileType) ==
  IF fileType = "csv"
  THEN [ attended |-> AttendedFields,
         professionalCouncilName |-> ProfessionalCouncilNameFields,
         registration |-> CsvRegistrationFields ]
  ELSE [ attended |-> AttendedFields,
         professionalCouncilName |-> ProfessionalCouncilNameFields,
         registration |-> ExcelRegistrationFields ]

\* row[fieldName] of a Record<string, unknown>: a row is a function from the
\* column names it has to values
RowGet(row, fieldName) ==
  IF fieldName \in DOMAIN row THEN row[fieldName] ELSE Undefined

\* value === undefined || value === null || value === ""
IsBlank(v) == v.t \in {"undef", "null"} \/ v = EmptyStr

\* the first non-blank value among the possible field names, else undefined
getFieldValue(row, possibleFieldNames) ==
  LET hits == {k \in 1..Len(possibleFieldNames) :
                 ~IsBlank(RowGet(row, possibleFieldNames[k]))}
  IN IF hits = {} THEN Undefined
     ELSE RowGet(row, possibleFieldNames[CHOOSE k \in hits : \A h \in hits : k <= h])

\* an attendance test that lets only the answer "yes" pass
shouldProcessRowOnlyYes(row, attendedFields) ==
  ToLowerCase(Trim(ToStringJS(getFieldValue(row, attendedFields)))) = <<"y", "e", "s">>

shouldProcessRow(row, attendedFields) ==
  LET attendedValue == getFieldValue(row, attendedFields)
      attendedStr == ToLowerCase(Trim(ToStringJS(attendedValue)))
  IN IF IsBlank(attendedValue) THEN FALSE
     ELSE attendedStr \notin { <<"n", "o">>, <<"f", "a", "l", "s", "e">>, <<"0">> }

isHPCSARegistered(row, councilNameFields) ==
  LET councilNameValue == getFieldValue(row, councilNameFields)
      councilName == ToUpperCase(Trim(ToStringJS(councilNameValue)))
  IN IF IsBlank(councilNameValue) THEN FALSE
     ELSE councilName = <<"H", "P", "C", "S", "A">>

\* string | null
getRegistrationNumber(row, fileType) ==
  LET value == getFieldValue(row, fieldMappings(fileType).registration)
  IN IF ~Truthy(value) THEN Null ELSE Str(Trim(ToStringJS(value)))

\* registrationNumbers.includes(regStr)
Includes(list, regStr) == \E k \in 1..Len(list) : list[k] = regStr

\* a push that does not look for the entry in the list
PushAlways(list, regStr) ==
  IF regStr # <<>> THEN Append(list, regStr) ELSE list

\* if (regStr && !registrationNumbers.includes(regStr)) push
PushIfNew(list, regStr) ==
  IF regStr # <<>> /\ ~Includes(list, regStr) THEN Append(list, regStr) ELSE list

\* one iteration of the loop over the rows; acc is [registrationNumbers,
\* skippedCount]
ExtractRow(acc, row, fileType) ==
  LET attendedFields == fieldMappings(fileType).attended
      councilNameFields == fieldMappings(fileType).professionalCouncilName
      regNumber == getRegistrationNumber(row, fileType)
      skipped == [acc EXCEPT !.skippedCount = @ + 1]
  IN IF Len(attendedFields) > 0 /\ ~shouldProcessRow(row, attendedFields)
     THEN skipped
     ELSE IF /\ Len(councilNameFields) > 0
             /\ fileType = "csv"
             /\ ~isHPCSARegistered(row, councilNameFields)
     THEN skipped
     ELSE IF Truthy(regNumber)
     THEN [acc EXCEPT !.registrationNumbers = PushIfNew(@, Trim(regNumber.s))]
     ELSE skipped

\* the loop over the first n rows of data
RECURSIVE ExtractRows(_, _, _)
ExtractRows(data, fileType, n) ==
  IF n = 0 THEN [registrationNumbers |-> <<>>, skippedCount |-> 0]
  ELSE ExtractRow(ExtractRows(data, fileType, n - 1), data[n], fileType)

\* extract(data, {fileType})
extract(data, fileType) ==
  LET acc == ExtractRows(data, fileType, Len(data))
  IN [ registrationNumbers |-> acc.registrationNumbers,
       skippedCount |-> acc.skippedCount,
       totalRows |-> Len(data) ]

\* ---------------------------------------------------------- configuration
DefaultTimeoutMs == 15000
DefaultBatchSize == 20
DefaultApiMaxConcurrent == 5
DefaultApiDelayMs == 200
ProcessorBatchSize == 20
ProcessorMaxConcurrent == 10
ProcessorDelayMs == 100

\* values of MAX_RETRIES the service is constructed with (3 is the default)
MaxRetriesValues == {0, 3}

\* defaultConfig merged with the constructor argument of HPCSAService
HPCSAServiceConfig(maxRetries) ==
  [ timeoutMs |-> DefaultTimeoutMs, maxRetries |-> maxRetries,
    batchSize |-> DefaultBatchSize,
    maxConcurrentRequests |-> DefaultApiMaxConcurrent,
    delayBetweenBatchesMs |-> DefaultApiDelayMs ]

\* the API configurations of an environment that sets MAX_RETRIES at most
ApiConfigs == {HPCSAServiceConfig(mr) : mr \in MaxRetriesValues}

\* an optional field is <<>> (undefined) or <<v>>;  opt ?? dflt
Nullish(opt, dflt) == IF opt = <<>> THEN dflt ELSE opt[1]

\* the constructor of BatchProcessorService
BatchProcessorServiceConfig(maxConcurrentRequests) ==
  [ batchSize |-> ProcessorBatchSize,
    maxConcurrentRequests |-> Nullish(maxConcurrentRequests, ProcessorMaxConcurrent),
    delayBetweenBatchesMs |-> ProcessorDelayMs ]

\* identifiers are taken in turn from this pool, so a list of three or more
\* holds a duplicate
IdPool == << <<"M", "P", "1">>, <<"Z", "Z", "9">> >>

IdList(n) == [k \in 1..n |-> IdPool[((k - 1) % Len(IdPool)) + 1]]

InputLists == {IdList(n) : n \in 0..MaxIds}

\* ------------------------------------------------------------------ state
VARIABLES
  apiConfig,     \* HPCSAService.config
  procConfig,    \* BatchProcessorService.config
  regs,          \* registrationNumbers of the running process call
  hasProgress,   \* an onProgress callback was passed
  pc,            \* "idle", "wave" (awaiting Promise.all), "delay" (awaiting
                 \* the inter-batch delay), "returned" (searchBatch resolved),
                 \* "done" / "threw" (process resolved / rejected)
  i,             \* loop index of searchBatch
  results,       \* results of searchBatch
  slots,         \* the lookups of the current batch, in dispatch order; last
                 \* is what the remote did to the attempt now open or ended
  completed,     \* slot indices of the latest batch in completion order
  response,      \* value process resolved with
  requests,      \* per input position: remote requests issued so far
  failures,      \* per input position: attempts that failed so far
  produced,      \* per input position: result its lookup settled with
  inFlight,      \* <<position, attempt>> of the requests now open
  progressLog,   \* arguments of the onProgress calls made, in order
  pauseLog,      \* durations of the inter-batch delays started, in order
  waveLog,       \* sizes of the batches dispatched, in order
  remote,        \* per identifier: what the remote may do to a request for it
  previous,      \* outcome of the preceding process call on the same list
  extraction,    \* a parsed file, its type and what extract returned for it
  single,        \* a searchSingle call: its position, arguments and return value
  other,         \* the second of two concurrent process calls, while it waits
  container      \* the module-level containerInstance and the instances made

vars == << apiConfig, procConfig, regs, hasProgress, pc, i, results, slots,
           completed, response, requests, failures, produced, inFlight,
           progressLog, pauseLog, waveLog, remote, previous, extraction,
           single, other, container >>

\* state that the steps of a batch run leave alone
otherVars == << remote, previous, extraction, single, other, container >>

NoResponse == [results |-> <<>>, statistics |-> NoStatistics, present |-> FALSE]

\* what the remote did to an attempt, besides answering with a body
FailureKinds == {"timeout", "status", "badjson"}

RemoteKinds == FailureKinds \cup BodyNames

IdSet == {IdPool[k] : k \in 1..Len(IdPool)}

\* a remote that may do anything to any request
FreeRemote == [id \in IdSet |-> RemoteKinds]

NoPrevious == [present |-> FALSE, results |-> <<>>, response |-> NoResponse, pc |-> "idle"]

NoExtraction ==
  [ fileType |-> "csv", data |-> <<>>, done |-> FALSE,
    result |-> [registrationNumbers |-> <<>>, skippedCount |-> 0, totalRows |-> 0] ]

NoSingle ==
  [ st |-> "idle", reg |-> <<>>, timeoutMs |-> 0, requests |-> 0, cause |-> "none",
    value |-> [threw |-> FALSE, records |-> <<>>] ]

\* the module is loaded: containerInstance is null (0), no instance exists.
\* Instances are numbered in the order of construction; configs[id] is the
\* argument the constructor of instance id was given.  The other fields
\* record the calls: the instances returned by the last two calls of
\* getServiceContainer, whether a reset came before the last one and since,
\* the argument of the last one and whether it constructed, the instance
\* returned by the last createServiceContainer, and the last function called.
NoContainer ==
  [ instance |-> 0, configs |-> <<>>, lastGet |-> 0, prevGet |-> 0,
    resetBeforeLast |-> FALSE, resetSince |-> FALSE, lastArg |-> <<>>,
    lastGetCreated |-> FALSE, lastCreate |-> 0, lastOp |-> "none" ]

\* a second caller that has not called yet
NoOther ==
  [ id |-> 2, regs |-> <<>>, hasProgress |-> FALSE, pc |-> "idle", i |-> 0,
    results |-> <<>>, slots |-> <<>>, completed |-> <<>>, response |-> NoResponse,
    requests |-> <<>>, failures |-> <<>>, produced |-> <<>>, inFlight |-> {},
    progressLog |-> <<>>, pauseLog |-> <<>>, waveLog |-> <<>> ]

\* the services are constructed; nothing is recorded of any call
InitHistory ==
  /\ single = NoSingle
  /\ container = NoContainer
  /\ other = NoOther
  /\ hasProgress = FALSE
  /\ i = 0
  /\ slots = <<>>
  /\ completed = <<>>
  /\ response = NoResponse
  /\ requests = <<>>
  /\ failures = <<>>
  /\ produced = <<>>
  /\ inFlight = {}
  /\ progressLog = <<>>
  /\ pauseLog = <<>>
  /\ waveLog = <<>>
  /\ previous = NoPrevious

\* the services are constructed and no call has been made
InitIdle ==
  /\ InitHistory
  /\ extraction = NoExtraction
  /\ regs = <<>>
  /\ pc = "idle"
  /\ results = <<>>

Init ==
  /\ InitIdle
  /\ apiConfig \in ApiConfigs
  /\ procConfig \in {BatchProcessorServiceConfig(<<c>>) : c \in 1..MaxConcurrent}
  /\ remote = FreeRemote

\* ------------------------------------------------------------ searchBatch
Min(a, b) == IF a <= b THEN a ELSE b
Max(a, b) == IF a >= b THEN a ELSE b

\* slice taking one element too many
SliceInclusiveEnd(list, from, to) == SubSeq(list, from + 1, Min(to + 1, Len(list)))

\* an index argument of slice: a negative one counts from the end
SliceIndex(k, len) == IF k < 0 THEN Max(len + k, 0) ELSE Min(k, len)

\* a slice that is empty when its first identifier occurs earlier in the list
SliceWithoutRepeats(list, from, to) ==
  IF from >= 0 /\ from < Len(list) /\ \E j \in 1..from : list[j] = list[from + 1]
  THEN <<>>
  ELSE SubSeq(list, SliceIndex(from, Len(list)) + 1, SliceIndex(to, Len(list)))

\* list.slice(from, to)
Slice(list, from, to) ==
  SubSeq(list, SliceIndex(from, Len(list)) + 1, SliceIndex(to, Len(list)))

\* a loop test that admits one iteration too many
LoopTestInclusive(idx, total) == idx <= total

\* the test of the for statement
LoopTest(idx, total) == idx < total

\* progress count without the cap at the total
ProgressCountUncapped(idx, maxConcurrent, total) == idx + maxConcurrent

\* the count of the Outcomes collected before the wave
ProgressCountBeforeWave(idx, maxConcurrent, total) == idx

\* first argument of onProgress
ProgressCount(idx, maxConcurrent, total) == Min(idx + maxConcurrent, total)

\* delay condition that also holds after the last batch of an exact multiple
MoreBatchesRemainInclusive(idx, maxConcurrent, total) == idx + maxConcurrent <= total

\* the condition of the rate-limiting delay
MoreBatchesRemain(idx, maxConcurrent, total) == idx + maxConcurrent < total

\* a barrier passed as soon as one lookup has settled
AnySettled(slotSeq) == \E k \in 1..Len(slotSeq) : slotSeq[k].st = "done"

\* Promise.all resolves when every promise has settled
AllSettled(slotSeq) == \A k \in 1..Len(slotSeq) : slotSeq[k].st = "done"

\* values collected in the order the lookups completed
PromiseAllInCompletionOrder(slotSeq) ==
  [k \in 1..Len(slotSeq) |->
     IF k <= Len(completed) THEN slotSeq[completed[k]].result ELSE Unsettled]

\* Promise.all resolves with the values in the order of the promises
PromiseAll(slotSeq) == [k \in 1..Len(slotSeq) |-> slotSeq[k].result]

\* a retry policy that honours the configured maxRetries
RetryWhileBelowMaxRetries(attempt) == attempt <= apiConfig.maxRetries

\* the outer catch retries, the inner catch does not
RetryAfterFailure(attempt) == attempt = 1

\* searchSingleAsBatchResult up to its first await: executeSearch has called
\* fetch and armed the abort timer
StartLookup(registrationNumber) ==
  [ reg |-> registrationNumber, st |-> "fetch", attempt |-> 1, last |-> "none",
    result |-> Unsettled ]

\* an attempt of the lookup failed (executeSearch or parseSearchResults threw)
AfterFailure(slot, kind) ==
  IF RetryAfterFailure(slot.attempt)
  THEN [slot EXCEPT !.st = "backoff", !.last = kind]
  ELSE [slot EXCEPT !.st = "done", !.last = kind,
                    !.result = RetryExhaustedResult(slot.reg)]

\* a lookup that treats an empty record list of its first attempt as a failure
AfterSuccessRetryingEmpty(slot, records, bodyName) ==
  IF Len(records) = 0 /\ slot.attempt = 1
  THEN [slot EXCEPT !.st = "backoff", !.last = bodyName]
  ELSE [slot EXCEPT !.st = "done", !.last = bodyName,
                    !.result = ToBatchResult(records, slot.reg)]

\* an attempt of the lookup returned a parsed record list
AfterSuccess(slot, records, bodyName) ==
  [slot EXCEPT !.st = "done", !.last = bodyName,
               !.result = ToBatchResult(records, slot.reg)]

\* the for statement's test and the body up to `await Promise.all`
LoopHead(list, idx, maxConcurrent, reqs) ==
  IF LoopTest(idx, Len(list))
  THEN LET batch == Slice(list, idx, idx + maxConcurrent) IN
       /\ i' = idx
       /\ slots' = [k \in 1..Len(batch) |-> StartLookup(batch[k])]
       /\ completed' = <<>>
       /\ requests' = [p \in DOMAIN reqs |->
                         IF idx < p /\ p <= idx + Len(batch) THEN reqs[p] + 1 ELSE reqs[p]]
       /\ inFlight' = inFlight \cup {<<idx + k, 1>> : k \in 1..Len(batch)}
       /\ waveLog' = Append(waveLog, Len(batch))
       /\ pc' = "wave"
  ELSE /\ i' = idx
       /\ slots' = <<>>
       /\ completed' = <<>>
       /\ requests' = reqs
       /\ inFlight' = inFlight
       /\ waveLog' = waveLog
       /\ pc' = "returned"

\* process(registrationNumbers, onProgress) is called: searchBatch runs up to
\* its first await
Call(list, cb) ==
  /\ regs' = list
  /\ hasProgress' = cb
  /\ results' = <<>>
  /\ failures' = [p \in 1..Len(list) |-> 0]
  /\ produced' = [p \in 1..Len(list) |-> Unsettled]
  /\ LoopHead(list, 0, procConfig.maxConcurrentRequests,
              [p \in 1..Len(list) |-> 0])
  /\ UNCHANGED << otherVars, apiConfig, procConfig, response, progressLog, pauseLog >>

ProcessCall ==
  /\ pc = "idle"
  /\ \E list \in InputLists, cb \in BOOLEAN : Call(list, cb)

\* bookkeeping common to the steps that end a request of slot k
Settle(k, newSlot, failed) ==
  /\ slots' = [slots EXCEPT ![k] = newSlot]
  /\ inFlight' = inFlight \ {<<i + k, slots[k].attempt>>}
  /\ failures' = IF failed THEN [failures EXCEPT ![i + k] = @ + 1] ELSE failures
  /\ IF newSlot.st = "done"
     THEN /\ completed' = Append(completed, k)
          /\ produced' = [produced EXCEPT ![i + k] = newSlot.result]
     ELSE UNCHANGED << completed, produced >>
  /\ UNCHANGED << otherVars, apiConfig, procConfig, regs, hasProgress, pc, i, results,
                  response, requests, progressLog, pauseLog, waveLog >>

\* the abort timer fires before the response arrives: fetch rejects
FetchTimeout(k) ==
  /\ pc = "wave" /\ slots[k].st = "fetch"
  /\ "timeout" \in remote[slots[k].reg]
  /\ Settle(k, AfterFailure(slots[k], "timeout"), TRUE)

\* the response has a non-success status: executeSearch throws
FetchNotOk(k) ==
  /\ pc = "wave" /\ slots[k].st = "fetch"
  /\ "status" \in remote[slots[k].reg]
  /\ Settle(k, AfterFailure(slots[k], "status"), TRUE)

\* the response has a success status: the timer is cleared and the body awaited
FetchOk(k) ==
  /\ pc = "wave" /\ slots[k].st = "fetch"
  /\ remote[slots[k].reg] \cap (BodyNames \cup {"badjson"}) # {}
  /\ slots' = [slots EXCEPT ![k].st = "body"]
  /\ UNCHANGED << otherVars, apiConfig, procConfig, regs, hasProgress, pc, i, results,
                  completed, response, requests, failures, produced, inFlight,
                  progressLog, pauseLog, waveLog >>

\* response.json() rejects
BodyUnparseable(k) ==
  /\ pc = "wave" /\ slots[k].st = "body"
  /\ "badjson" \in remote[slots[k].reg]
  /\ Settle(k, AfterFailure(slots[k], "badjson"), TRUE)

\* response.json() resolves and the result is parsed
BodyParsed(k) ==
  /\ pc = "wave" /\ slots[k].st = "body"
  /\ \E name \in BodyNames \cap remote[slots[k].reg] :
       LET parsed == parseSearchResults(Body(name), slots[k].reg) IN
       IF parsed.threw
       THEN Settle(k, AfterFailure(slots[k], name), TRUE)
       ELSE Settle(k, AfterSuccess(slots[k], parsed.records, name), FALSE)

\* delay(500) of the retry elapses and executeSearch is called again
BackoffElapsed(k) ==
  /\ pc = "wave" /\ slots[k].st = "backoff"
  /\ slots' = [slots EXCEPT ![k].st = "fetch", ![k].attempt = @ + 1,
                           ![k].last = "none"]
  /\ requests' = [requests EXCEPT ![i + k] = @ + 1]
  /\ inFlight' = inFlight \cup {<<i + k, slots[k].attempt + 1>>}
  /\ UNCHANGED << otherVars, apiConfig, procConfig, regs, hasProgress, pc, i, results,
                  completed, response, failures, produced, progressLog,
                  pauseLog, waveLog >>

\* Promise.all resolves: results.push, onProgress, then the delay or the return
WaveComplete ==
  /\ pc = "wave"
  /\ AllSettled(slots)
  /\ LET maxConcurrent == procConfig.maxConcurrentRequests
         total == Len(regs)
     IN
     /\ results' = results \o PromiseAll(slots)
     /\ progressLog' =
          IF hasProgress
          THEN Append(progressLog, <<ProgressCount(i, maxConcurrent, total), total>>)
          ELSE progressLog
     /\ IF MoreBatchesRemain(i, maxConcurrent, total)
        THEN /\ pc' = "delay"
             /\ pauseLog' = Append(pauseLog, procConfig.delayBetweenBatchesMs)
        ELSE /\ pc' = "returned"
             /\ pauseLog' = pauseLog
  /\ slots' = <<>>
  /\ UNCHANGED << otherVars, apiConfig, procConfig, regs, hasProgress, i, completed, response,
                  requests, failures, produced, inFlight, waveLog >>

\* the inter-batch delay elapses: i += maxConcurrent and the next iteration
DelayElapsed ==
  /\ pc = "delay"
  /\ Len(waveLog) < MaxIterations
  /\ LoopHead(regs, i + procConfig.maxConcurrentRequests,
              procConfig.maxConcurrentRequests, requests)
  /\ UNCHANGED << otherVars, apiConfig, procConfig, regs, hasProgress, results, response,
                  failures, produced, progressLog, pauseLog >>

\* a return whose aggregation consumes the Outcome list it counts
ProcessReturnConsuming ==
  /\ pc = "returned"
  /\ LET stats == calculateStatistics(results) IN
     IF stats.threw
     THEN /\ pc' = "threw"
          /\ response' = response
     ELSE /\ pc' = "done"
          /\ response' = [results |-> IF results = <<>> THEN <<>> ELSE Tail(results),
                          statistics |-> stats.statistics, present |-> TRUE]
  /\ UNCHANGED << otherVars, apiConfig, procConfig, regs, hasProgress, i, results, slots,
                  completed, requests, failures, produced, inFlight,
                  progressLog, pauseLog, waveLog >>

\* process resumes after `await searchBatch`: calculateStatistics and return
ProcessReturn ==
  /\ pc = "returned"
  /\ LET stats == calculateStatistics(results) IN
     IF stats.threw
     THEN /\ pc' = "threw"
          /\ response' = response
     ELSE /\ pc' = "done"
          /\ response' = [results |-> results, statistics |-> stats.statistics,
                          present |-> TRUE]
  /\ UNCHANGED << otherVars, apiConfig, procConfig, regs, hasProgress, i, results, slots,
                  completed, requests, failures, produced, inFlight,
                  progressLog, pauseLog, waveLog >>

Next ==
  \/ ProcessCall
  \/ \E k \in DOMAIN slots : FetchTimeout(k)
  \/ \E k \in DOMAIN slots : FetchNotOk(k)
  \/ \E k \in DOMAIN slots : FetchOk(k)
  \/ \E k \in DOMAIN slots : BodyUnparseable(k)
  \/ \E k \in DOMAIN slots : BodyParsed(k)
  \/ \E k \in DOMAIN slots : BackoffElapsed(k)
  \/ WaveComplete
  \/ DelayElapsed
  \/ ProcessReturn

Spec == Init /\ [][Next]_vars

\* maxConcurrentRequests values that are no batch size: the constructor takes
\* any number (only null and undefined are replaced by the default)
MalformedConcurrency == {0, -1}

InitMalformed ==
  /\ InitIdle
  /\ apiConfig \in ApiConfigs
  /\ procConfig \in {BatchProcessorServiceConfig(<<c>>) : c \in MalformedConcurrency}
  /\ remote = FreeRemote

SpecMalformed == InitMalformed /\ [][Next]_vars

\* ------------------------------------------- a run through the container
MaxContainerIds == 2   \* longest list submitted through the container

\* MAX_CONCURRENT_REQUESTS and REQUEST_DELAY_MS as an operator may set them
EnvMaxConcurrent == {1, 2}
EnvDelayMs == {50, 200}

\* defaultConfig under such an environment: parseInt(process.env...)
EnvApiConfig(maxConcurrent, delayMs) ==
  [ HPCSAServiceConfig(3) EXCEPT !.maxConcurrentRequests = maxConcurrent,
                                 !.delayBetweenBatchesMs = delayMs ]

\* new ServiceContainerImpl(): createHPCSAService(config.apiConfig) takes the
\* environment's values, createBatchProcessorService(this.hpcsaService) is
\* given no configuration
InitContainer ==
  /\ InitIdle
  /\ apiConfig \in {EnvApiConfig(c, d) : c \in EnvMaxConcurrent, d \in EnvDelayMs}
  /\ procConfig = BatchProcessorServiceConfig(<<>>)
  /\ remote = FreeRemote

\* the batch-search route: batchProcessor.process(registrationNumbers), no
\* progress callback
RouteProcessCall ==
  /\ pc = "idle"
  /\ \E list \in {IdList(n) : n \in 0..MaxContainerIds} : Call(list, FALSE)

\* a list of at most ten identifiers is one wave: no delay is ever awaited
NextContainer ==
  \/ RouteProcessCall
  \/ \E k \in DOMAIN slots : FetchTimeout(k)
  \/ \E k \in DOMAIN slots : FetchNotOk(k)
  \/ \E k \in DOMAIN slots : FetchOk(k)
  \/ \E k \in DOMAIN slots : BodyUnparseable(k)
  \/ \E k \in DOMAIN slots : BodyParsed(k)
  \/ \E k \in DOMAIN slots : BackoffElapsed(k)
  \/ WaveComplete
  \/ ProcessReturn

SpecContainer == InitContainer /\ [][NextContainer]_vars

\* --------------------------------------- identifiers as a file gives them
MaxSpacedIds == 2   \* longest list of such identifiers

\* the extractor trims an identifier but leaves blanks inside it
SpacedId == <<"M", "P", " ", "1">>

SpacedIds == {IdPool[1], SpacedId}

InitSpaced ==
  /\ InitIdle
  /\ apiConfig \in ApiConfigs
  /\ procConfig = BatchProcessorServiceConfig(<<1>>)
  /\ remote = [id \in SpacedIds |-> RemoteKinds]

ProcessCallSpaced ==
  /\ pc = "idle"
  /\ \E list \in UNION {[1..n -> SpacedIds] : n \in 0..MaxSpacedIds} : Call(list, FALSE)

NextSpaced ==
  \/ ProcessCallSpaced
  \/ \E k \in DOMAIN slots : FetchTimeout(k)
  \/ \E k \in DOMAIN slots : FetchNotOk(k)
  \/ \E k \in DOMAIN slots : FetchOk(k)
  \/ \E k \in DOMAIN slots : BodyUnparseable(k)
  \/ \E k \in DOMAIN slots : BodyParsed(k)
  \/ \E k \in DOMAIN slots : BackoffElapsed(k)
  \/ WaveComplete
  \/ DelayElapsed
  \/ ProcessReturn

SpecSpaced == InitSpaced /\ [][NextSpaced]_vars

\* ----------------------------------------------------------- searchSingle
batchVarsOnly ==
  << apiConfig, procConfig, regs, hasProgress, pc, i, results, slots,
     completed, response, requests, failures, produced, inFlight,
     progressLog, pauseLog, waveLog, remote, previous, extraction, other >>

batchVars == << apiConfig, procConfig, regs, hasProgress, pc, i, results, slots,
                completed, response, requests, failures, produced, inFlight,
                progressLog, pauseLog, waveLog, remote, previous, extraction,
                other, container >>

SingleIds == IdSet \cup {SpacedId}

\* options.timeoutMs of the caller: absent, or a value of its own
TimeoutOptions == {<<>>, <<5000>>}

InitSingle ==
  /\ InitIdle
  /\ apiConfig \in ApiConfigs
  /\ procConfig = BatchProcessorServiceConfig(<<>>)
  /\ remote = [id \in SingleIds |-> RemoteKinds]

\* what searchSingle returns from its try block: the parsed records; a throw
\* of parseSearchResults is caught like one of executeSearch
SingleTryValue(parsed) ==
  IF parsed.threw THEN [threw |-> FALSE, records |-> <<>>]
  ELSE [threw |-> FALSE, records |-> parsed.records]

\* the catch block: log and return []
SingleCatch == [threw |-> FALSE, records |-> <<>>]

\* searchSingle(registrationNumber, options) up to `await fetch`
SearchSingleCall ==
  /\ single.st = "idle"
  /\ \E registrationNumber \in SingleIds, opt \in TimeoutOptions :
       single' = [ NoSingle EXCEPT !.st = "fetch", !.reg = registrationNumber,
                                   !.timeoutMs = Nullish(opt, apiConfig.timeoutMs),
                                   !.requests = 1 ]
  /\ UNCHANGED batchVars

\* the abort timer fires: fetch rejects, the catch block returns
SingleFetchTimeout ==
  /\ single.st = "fetch"
  /\ "timeout" \in remote[single.reg]
  /\ single' = [single EXCEPT !.st = "returned", !.cause = "timeout", !.value = SingleCatch]
  /\ UNCHANGED batchVars

\* !response.ok: executeSearch throws, the catch block returns
SingleFetchNotOk ==
  /\ single.st = "fetch"
  /\ "status" \in remote[single.reg]
  /\ single' = [single EXCEPT !.st = "returned", !.cause = "status", !.value = SingleCatch]
  /\ UNCHANGED batchVars

\* the response has a success status: the body is awaited
SingleFetchOk ==
  /\ single.st = "fetch"
  /\ remote[single.reg] \cap (BodyNames \cup {"badjson"}) # {}
  /\ single' = [single EXCEPT !.st = "body"]
  /\ UNCHANGED batchVars

\* response.json() rejects, the catch block returns
SingleBodyUnparseable ==
  /\ single.st = "body"
  /\ "badjson" \in remote[single.reg]
  /\ single' = [single EXCEPT !.st = "returned", !.cause = "badjson", !.value = SingleCatch]
  /\ UNCHANGED batchVars

\* response.json() resolves and parseSearchResults is applied
SingleBodyParsed ==
  /\ single.st = "body"
  /\ \E name \in BodyNames \cap remote[single.reg] :
       single' = [single EXCEPT
                    !.st = "returned", !.cause = name,
                    !.value = SingleTryValue(parseSearchResults(Body(name), single.reg))]
  /\ UNCHANGED batchVars

NextSingle ==
  \/ SearchSingleCall
  \/ SingleFetchTimeout
  \/ SingleFetchNotOk
  \/ SingleFetchOk
  \/ SingleBodyUnparseable
  \/ SingleBodyParsed

SpecSingle == InitSingle /\ [][NextSingle]_vars

\* ------------------------------------------ two process calls at a time
MaxRunIds == 2   \* longest list of either of the two calls

\* the call whose step is being taken; the other one waits at an await
Current == 3 - other.id

\* the first caller submits the first identifier of the pool, the second
\* caller the second one
RunList(id, n) == [k \in 1..n |-> IdPool[id]]

\* one service instance: a remote that finds the first identifier or times
\* out, and has no row for the second or fails
InitTwoRuns ==
  /\ InitIdle
  /\ apiConfig \in ApiConfigs
  /\ procConfig = BatchProcessorServiceConfig(<<1>>)
  /\ remote = [id \in IdSet |->
                 IF id = IdPool[1] THEN {"active", "timeout"}
                 ELSE {"empty", "status", "badjson"}]

RunCall ==
  /\ pc = "idle"
  /\ \E n \in 0..MaxRunIds : Call(RunList(Current, n), TRUE)

\* a result array that belongs to the service instance
ResumedResultsShared(own, instance) == instance

\* `const results = []` is a local of searchBatch: a call that resumes finds
\* its own array
ResumedResults(own, instance) == own

\* the call in progress waits at an await and the other call goes on: the
\* locals of the two calls change places
Switch ==
  /\ other' = [ id |-> Current, regs |-> regs, hasProgress |-> hasProgress, pc |-> pc,
                i |-> i, results |-> results, slots |-> slots, completed |-> completed,
                response |-> response, requests |-> requests, failures |-> failures,
                produced |-> produced, inFlight |-> inFlight,
                progressLog |-> progressLog, pauseLog |-> pauseLog, waveLog |-> waveLog ]
  /\ regs' = other.regs
  /\ hasProgress' = other.hasProgress
  /\ pc' = other.pc
  /\ i' = other.i
  /\ results' = ResumedResults(other.results, results)
  /\ slots' = other.slots
  /\ completed' = other.completed
  /\ response' = other.response
  /\ requests' = other.requests
  /\ failures' = other.failures
  /\ produced' = other.produced
  /\ inFlight' = other.inFlight
  /\ progressLog' = other.progressLog
  /\ pauseLog' = other.pauseLog
  /\ waveLog' = other.waveLog
  /\ UNCHANGED << apiConfig, procConfig, remote, previous, extraction, single,
                  container >>

NextTwoRuns ==
  \/ RunCall
  \/ Switch
  \/ \E k \in DOMAIN slots : FetchTimeout(k)
  \/ \E k \in DOMAIN slots : FetchNotOk(k)
  \/ \E k \in DOMAIN slots : FetchOk(k)
  \/ \E k \in DOMAIN slots : BodyUnparseable(k)
  \/ \E k \in DOMAIN slots : BodyParsed(k)
  \/ \E k \in DOMAIN slots : BackoffElapsed(k)
  \/ WaveComplete
  \/ DelayElapsed
  \/ ProcessReturn

SpecTwoRuns == InitTwoRuns /\ [][NextTwoRuns]_vars

\* ------------------------------------------------ the service container
MaxContainers == 3   \* instances of ServiceContainerImpl constructed

\* the config argument: absent, or one of two ContainerConfig objects
ContainerConfigs == {<<>>, <<"A">>, <<"B">>}

InitSingleton ==
  /\ InitIdle
  /\ apiConfig \in ApiConfigs
  /\ procConfig = BatchProcessorServiceConfig(<<>>)
  /\ remote = FreeRemote

\* a test that never finds an instance
HasInstanceNever(instance) == FALSE

\* !containerInstance is false
HasInstance(instance) == instance # 0

\* getServiceContainer(config)
GetServiceContainer ==
  /\ HasInstance(container.instance) \/ Len(container.configs) < MaxContainers
  /\ \E config \in ContainerConfigs :
       LET made == ~HasInstance(container.instance)
           returned == IF made THEN Len(container.configs) + 1 ELSE container.instance
       IN container' =
            [ container EXCEPT
                !.instance = returned,
                !.configs = IF made THEN Append(@, config) ELSE @,
                !.prevGet = container.lastGet,
                !.lastGet = returned,
                !.resetBeforeLast = container.resetSince,
                !.resetSince = FALSE,
                !.lastArg = config,
                !.lastGetCreated = made,
                !.lastOp = "get" ]
  /\ UNCHANGED << batchVarsOnly, single >>

\* createServiceContainer(config)
CreateServiceContainer ==
  /\ Len(container.configs) < MaxContainers
  /\ \E config \in ContainerConfigs :
       container' = [ container EXCEPT !.configs = Append(@, config),
                                       !.lastCreate = Len(container.configs) + 1,
                                       !.lastOp = "create" ]
  /\ UNCHANGED << batchVarsOnly, single >>

\* resetServiceContainer()
ResetServiceContainer ==
  /\ container' = [container EXCEPT !.instance = 0, !.resetSince = TRUE,
                                    !.lastOp = "reset"]
  /\ UNCHANGED << batchVarsOnly, single >>

NextSingleton ==
  \/ GetServiceContainer
  \/ CreateServiceContainer
  \/ ResetServiceContainer

SpecSingleton == InitSingleton /\ [][NextSingleton]_vars

\* ------------------------------------------------- the same list twice
\* a remote that treats every request for an identifier in one way
FixedRemotes == [IdSet -> {{kind} : kind \in RemoteKinds}]

InitIdem ==
  /\ InitIdle
  /\ apiConfig \in ApiConfigs
  /\ procConfig \in {BatchProcessorServiceConfig(<<c>>) : c \in 1..MaxConcurrent}
  /\ remote \in FixedRemotes

\* the caller has the outcome of its first call (a response or an exception)
\* and keeps it; what the call recorded is dropped
FirstCallOver ==
  /\ pc \in {"done", "threw"}
  /\ ~previous.present
  /\ previous' = [present |-> TRUE, results |-> results, response |-> response,
                   pc |-> pc]
  /\ pc' = "idle"
  /\ i' = 0
  /\ results' = <<>>
  /\ completed' = <<>>
  /\ response' = NoResponse
  /\ requests' = <<>>
  /\ failures' = <<>>
  /\ produced' = <<>>
  /\ progressLog' = <<>>
  /\ pauseLog' = <<>>
  /\ waveLog' = <<>>
  /\ UNCHANGED << apiConfig, procConfig, regs, hasProgress, slots, inFlight,
                  remote, extraction, single, other, container >>

\* process is called again with the same list and callback
ProcessCallAgain ==
  /\ pc = "idle"
  /\ previous.present
  /\ Call(regs, hasProgress)

NextIdem ==
  \/ ~previous.present /\ ProcessCall
  \/ FirstCallOver
  \/ ProcessCallAgain
  \/ \E k \in DOMAIN slots : FetchTimeout(k)
  \/ \E k \in DOMAIN slots : FetchNotOk(k)
  \/ \E k \in DOMAIN slots : FetchOk(k)
  \/ \E k \in DOMAIN slots : BodyUnparseable(k)
  \/ \E k \in DOMAIN slots : BodyParsed(k)
  \/ \E k \in DOMAIN slots : BackoffElapsed(k)
  \/ WaveComplete
  \/ DelayElapsed
  \/ ProcessReturn

SpecIdem == InitIdem /\ [][NextIdem]_vars

\* calculateStatistics applied to Outcome lists of every content: the state is
\* the one in which searchBatch has just returned the list to process
StatusPool ==
  { Str(<<"A", "c", "t", "i", "v", "e">>), Str(<<"A", "C", "T", "I", "V", "E">>),
    Str(Active), Str(<<"I", "n", "a", "c", "t", "i", "v", "e">>), EmptyStr, Num(1) }

OutcomePool ==
  { FoundResult([registration |-> Str(IdPool[1]), name |-> Str(<<"N">>),
                 city |-> EmptyStr, status |-> st]) : st \in StatusPool }
  \cup {NotFoundResult(IdPool[2])}

OutcomeLists == UNION {[1..n -> OutcomePool] : n \in 0..MaxOutcomes}

InitStats ==
  /\ InitHistory
  /\ apiConfig \in ApiConfigs
  /\ extraction = NoExtraction
  /\ procConfig = BatchProcessorServiceConfig(<<>>)
  /\ remote = FreeRemote
  /\ pc = "returned"
  /\ results \in OutcomeLists
  /\ regs = IdList(Len(results))

NextStats == ProcessReturn

SpecStats == InitStats /\ [][NextStats]_vars

\* ------------------------------------------------------ extract on files
Yes == Str(<<"Y", "e", "s">>)
HPCSA == Str(<<"H", "P", "C", "S", "A">>)

\* rows of a parsed Zoom attendee report
CsvRow(attended, council, number) ==
  [ col \in {"Attended", "Professional council name", "Professional council number"} |->
      CASE col = "Attended" -> attended
        [] col = "Professional council name" -> council
        [] OTHER -> number ]

CsvRows ==
  { CsvRow(Yes, HPCSA, Str(<<"M", "P", "1">>)),
    CsvRow(Str(<<"y", "e", "s">>), Str(<<"h", "p", "c", "s", "a", " ">>),
           Str(<<" ", "M", "P", "1", " ">>)),
    CsvRow(Yes, HPCSA, Str(<<"Z", "Z", "9">>)),
    CsvRow(Yes, HPCSA, Str(<<" ", " ">>)),
    CsvRow(Str(<<"N", "o">>), HPCSA, Str(<<"Z", "Z", "9">>)),
    CsvRow(Str(<<"M", "a", "y", "b", "e">>), HPCSA, Str(<<"Q", "7">>)),
    CsvRow(EmptyStr, HPCSA, Str(<<"Q", "7">>)),
    CsvRow(Yes, Str(<<"S", "A", "N", "C">>), Str(<<"Z", "Z", "9">>)) }

\* rows of a parsed workbook: a sheet with the one documented column, and
\* sheets that also have an Attended or a council column
ExcelRows ==
  { [col \in {"Registration number"} |-> Str(<<"M", "P", "1">>)],
    [col \in {"Registration number", "Attended"} |->
       IF col = "Attended" THEN Yes ELSE Str(<<" ", "M", "P", "1">>)],
    [col \in {"Registration", "Attended"} |->
       IF col = "Attended" THEN Yes ELSE Num(7)],
    [col \in {"Registration number", "Attended"} |->
       IF col = "Attended" THEN Str(<<"N", "o">>) ELSE Str(<<"Z", "Z", "9">>)],
    [col \in {"Registration number", "RegNo", "Attended", "Council Name"} |->
       CASE col = "Attended" -> Yes
         [] col = "Council Name" -> Str(<<"S", "A", "N", "C">>)
         [] col = "RegNo" -> Str(<<"Z", "Z", "9">>)
         [] OTHER -> EmptyStr] }

FileRows(fileType) == IF fileType = "csv" THEN CsvRows ELSE ExcelRows

ParsedFiles ==
  { [fileType |-> ft, data |-> d, done |-> FALSE, result |-> NoExtraction.result] :
      ft \in {"csv", "excel"}, d \in UNION {[1..n -> CsvRows \cup ExcelRows] : n \in 0..MaxRows} }

InitExtract ==
  /\ InitHistory
  /\ apiConfig \in ApiConfigs
  /\ procConfig = BatchProcessorServiceConfig(<<>>)
  /\ remote = FreeRemote
  /\ regs = <<>>
  /\ pc = "idle"
  /\ results = <<>>
  /\ extraction \in {f \in ParsedFiles :
                       \A k \in 1..Len(f.data) : f.data[k] \in FileRows(f.fileType)}

\* the route hands the parsed rows to extract
Extract ==
  /\ ~extraction.done
  /\ extraction' = [extraction EXCEPT !.done = TRUE,
                                      !.result = extract(extraction.data, extraction.fileType)]
  /\ UNCHANGED << apiConfig, procConfig, regs, hasProgress, pc, i, results, slots,
                  completed, response, requests, failures, produced, inFlight,
                  progressLog, pauseLog, waveLog, remote, previous, single, other,
                  container >>

NextExtract == Extract

SpecExtract == InitExtract /\ [][NextExtract]_vars

\* What the runtime guarantees to happen.  A timer that was armed fires: the
\* abort timer ends the wait for fetch (unless the response arrived first),
\* and the delays of the retry and of the rate limiting elapse.  A step that
\* only waits for the event loop (Promise.all resolving, process resuming)
\* is taken.  Nothing obliges the remote to send the rest of a response, and
\* executeSearch has cleared its timer before it awaits the body.
FetchEnds(k) ==
  k \in DOMAIN slots /\ (FetchTimeout(k) \/ FetchNotOk(k) \/ FetchOk(k))

RetryDelayEnds(k) == k \in DOMAIN slots /\ BackoffElapsed(k)

Fairness ==
  /\ \A k \in 1..MaxConcurrent : WF_vars(FetchEnds(k)) /\ WF_vars(RetryDelayEnds(k))
  /\ WF_vars(WaveComplete)
  /\ WF_vars(DelayElapsed)
  /\ WF_vars(ProcessReturn)

FairSpec == Spec /\ Fairness

\* ================================================================ claims
\* searchBatch has returned its result list
Returned == pc \in {"returned", "done", "threw"}

BatchConcurrency == procConfig.maxConcurrentRequests

\* ceil(n / c) for c >= 1
CeilDiv(n, c) == (n + c - 1) \div c

\* 0-based wave of input position p
WaveOf(p) == (p - 1) \div BatchConcurrency

\* the found=false Outcome of the claims, written out
NotFoundOutcome(id) ==
  [ registration |-> [t |-> "str", s |-> id, n |-> 0],
    name |-> [t |-> "str", s |-> <<>>, n |-> 0],
    city |-> [t |-> "str", s |-> <<>>, n |-> 0],
    status |-> [t |-> "str", s |-> <<>>, n |-> 0],
    found |-> FALSE ]

\* C1: when searchBatch has returned for a non-empty list, the result list has
\* the input's length and position p holds the result that the lookup of
\* input position p settled with (a found=false one carrying input[p]).
C1_OrderPreserved ==
  (Returned /\ Len(regs) >= 1) =>
    /\ Len(results) = Len(regs)
    /\ \A p \in 1..Len(regs) :
         /\ results[p] # Unsettled
         /\ results[p] = produced[p]
         /\ ~results[p].found => results[p].registration.s = regs[p]

\* a returned batch whose last wave completed in the reverse of dispatch order
\* with different results
C1_Witness ==
  /\ Returned
  /\ Len(regs) = 2
  /\ completed = <<2, 1>>
  /\ Len(results) = 2
  /\ results[1].found /\ ~results[2].found

\* C2: process never rejects, and what it resolves with covers every input
\* identifier.
C2_BatchNeverFails ==
  /\ pc # "threw"
  /\ pc = "done" =>
       /\ response.present
       /\ Len(response.results) = Len(regs)
       /\ response.statistics.totalProcessed = Len(regs)

\* C3: whenever a request has been issued for a position, every position of
\* an earlier wave has settled with its final result and has no request open.
C3_WaveBarrier ==
  \A p \in DOMAIN requests :
    requests[p] > 0 =>
      \A q \in DOMAIN requests :
        WaveOf(q) < WaveOf(p) =>
          /\ produced[q] # Unsettled
          /\ \A r \in inFlight : r[1] # q

\* a request of the second wave is open after a retry in the first wave
C3_Witness ==
  \E r \in inFlight :
    /\ WaveOf(r[1]) = 1
    /\ \E q \in DOMAIN requests : WaveOf(q) = 0 /\ requests[q] = 2

\* C4: the number of open remote requests never exceeds batchConcurrency.
C4_InFlightBounded == Cardinality(inFlight) <= BatchConcurrency

\* batchConcurrency >= 2 requests are open, one of them a retry
C4_Witness ==
  /\ BatchConcurrency >= 2
  /\ Cardinality(inFlight) = BatchConcurrency
  /\ \E r \in inFlight : r[2] = 2

C6_ExhaustedIsNotFound ==
  \A p \in DOMAIN failures :
    failures[p] = 2 =>
      /\ produced[p] = NotFoundOutcome(regs[p])
      /\ p <= Len(results) =>
           /\ results[p] = NotFoundOutcome(regs[p])
           /\ \A q \in DOMAIN failures :
                WaveOf(q) = WaveOf(p) =>
                  q <= Len(results) /\ results[q] = produced[q] /\ results[q] # Unsettled

\* a collected wave holds an exhausted position next to a found one
C6_Witness ==
  \E p, q \in DOMAIN failures :
    /\ failures[p] = 2
    /\ WaveOf(q) = WaveOf(p)
    /\ p <= Len(results) /\ q <= Len(results)
    /\ results[q].found

\* the body has a non-null error field, no data list, or an empty data list
C7_NonNullErrorOrNoRows(name) ==
  \/ Body(name).error.t # "null"
  \/ ~Body(name).hasData
  \/ Len(Body(name).data) = 0

\* the body has a non-empty error string, no data list, or an empty data list
C7_ErrorMessageOrNoRows(name) ==
  \/ Body(name).error.t = "str" /\ Len(Body(name).error.s) > 0
  \/ ~Body(name).hasData
  \/ Len(Body(name).data) = 0

\* C7 (as claimed): an attempt answered with a body that has zero rows, an
\* empty data list or a non-null error field ends the lookup at once with the
\* found=false Outcome of the input identifier.
C7_NonNullErrorIsNotFound ==
  \A k \in DOMAIN slots :
    (slots[k].last \in BodyNames /\ C7_NonNullErrorOrNoRows(slots[k].last)) =>
      /\ slots[k].st = "done"
      /\ slots[k].result = NotFoundOutcome(slots[k].reg)

\* C7 (amended): an attempt answered with a body that has zero rows, an empty
\* data list or a non-empty error string ends the lookup at once with the
\* found=false Outcome of the input identifier, and is not counted a failure.
C7_ErrorMessageIsNotFound ==
  \A k \in DOMAIN slots :
    (slots[k].last \in BodyNames /\ C7_ErrorMessageOrNoRows(slots[k].last)) =>
      /\ slots[k].st = "done"
      /\ slots[k].result = NotFoundOutcome(slots[k].reg)
      /\ failures[i + k] = slots[k].attempt - 1

\* a first attempt was answered with an error message next to a data row
C7_Witness ==
  \E k \in DOMAIN slots :
    /\ slots[k].last = "flag"
    /\ slots[k].attempt = 1
    /\ slots[k].st = "done"

C9_ExpectedWaves(n, c) ==
  [k \in 1..CeilDiv(n, c) |-> IF k < CeilDiv(n, c) THEN c ELSE n - c * (CeilDiv(n, c) - 1)]

C9_ExpectedProgress(n, c) ==
  [k \in 1..CeilDiv(n, c) |-> << (IF k * c <= n THEN k * c ELSE n), n >>]

\* waves whose Promise.all has resolved
C9_WavesCompleted == IF pc = "wave" THEN Len(waveLog) - 1 ELSE Len(waveLog)

\* C9: the waves dispatched are the first ones of the ceil(n/c) waves of sizes
\* c,...,c,n-c*(ceil(n/c)-1), all of them once searchBatch has returned; a
\* callback that was passed has been called once per completed wave, the k-th
\* call with (min(k*c, n), n) and after the positions it counts have settled.
C9_WavesAndProgress ==
  LET n == Len(regs)
      c == BatchConcurrency
  IN pc # "idle" =>
       /\ Len(waveLog) <= CeilDiv(n, c)
       /\ waveLog = SubSeq(C9_ExpectedWaves(n, c), 1, Len(waveLog))
       /\ Returned => Len(waveLog) = CeilDiv(n, c)
       /\ hasProgress =>
            /\ Len(progressLog) = C9_WavesCompleted
            /\ progressLog = SubSeq(C9_ExpectedProgress(n, c), 1, Len(progressLog))
            /\ \A k \in 1..Len(progressLog) :
                 \A p \in 1..progressLog[k][1] : produced[p] # Unsettled
            /\ \A k \in 1..(Len(progressLog) - 1) :
                 progressLog[k][1] < progressLog[k + 1][1]
            /\ Returned /\ n >= 1 => progressLog[Len(progressLog)][1] = n
       /\ ~hasProgress => progressLog = <<>>

\* three identifiers at concurrency two: waves 2,1 and counts 2,3
C9_Witness ==
  /\ Returned
  /\ hasProgress
  /\ waveLog = <<2, 1>>
  /\ progressLog = << <<2, 3>>, <<3, 3>> >>

\* C10: a pause of interWaveDelay is started after each wave but the last:
\* while a wave runs there are as many pauses as earlier waves; during a pause
\* the wave's callback has been made, no request is open and none has been
\* issued for a later wave; after the return there are ceil(n/c)-1 pauses
\* (none for a single wave).
C10_InterWavePauses ==
  LET n == Len(regs)
      c == BatchConcurrency
  IN /\ \A k \in 1..Len(pauseLog) : pauseLog[k] = procConfig.delayBetweenBatchesMs
     /\ pc = "wave" => Len(pauseLog) = Len(waveLog) - 1
     /\ pc = "delay" =>
          /\ Len(pauseLog) = Len(waveLog)
          /\ Len(waveLog) < CeilDiv(n, c)
          /\ hasProgress => Len(progressLog) = Len(waveLog)
          /\ inFlight = {}
          /\ \A p \in DOMAIN requests : p > i + c => requests[p] = 0
     /\ (Returned /\ n >= 1) => Len(pauseLog) = CeilDiv(n, c) - 1
     /\ (Returned /\ n = 0) => pauseLog = <<>>

\* three waves were run with two pauses between them
C10_Witness ==
  /\ Returned
  /\ Len(waveLog) = 3
  /\ Len(pauseLog) = 2

\* C11: every lookup attempt ends once its timeout has elapsed, also when the
\* remote stops answering part-way through a response, so that a batch that
\* has dispatched a wave eventually returns.
C11_BatchEventuallyReturns == (pc = "wave") ~> Returned

\* C12: a call made with a malformed batch concurrency (0 or negative) does not
\* run forever: searchBatch does not go through more iterations of its loop
\* than the list has identifiers.
C12_MalformedConcurrencyFails ==
  BatchConcurrency \in MalformedConcurrency => Len(waveLog) <= Len(regs)

\* C13: for the empty list no wave is run, no request issued, no progress
\* callback made and no pause started; the Outcome list is empty, and the
\* response carries it with statistics that are all zero.
C13_EmptyListDoesNothing ==
  (pc # "idle" /\ Len(regs) = 0) =>
    /\ results = <<>>
    /\ waveLog = <<>>
    /\ requests = <<>>
    /\ inFlight = {}
    /\ progressLog = <<>>
    /\ pauseLog = <<>>
    /\ pc \in {"returned", "done"}
    /\ pc = "done" =>
         /\ response.results = <<>>
         /\ response.statistics =
              [ activeCount |-> 0, inactiveCount |-> 0, notFoundCount |-> 0,
                totalProcessed |-> 0 ]

\* process has returned for the empty list, called with a progress callback
C13_Witness ==
  /\ pc = "done"
  /\ Len(regs) = 0
  /\ hasProgress
  /\ response.present

ActiveUpper == <<"A", "C", "T", "I", "V", "E">>

\* the status is the word "active", each letter in either case
EqualsActiveIgnoringCase(status) ==
  /\ status.t = "str"
  /\ Len(status.s) = Len(Active)
  /\ \A k \in 1..Len(Active) : status.s[k] \in {Active[k], ActiveUpper[k]}

\* the statistics that the classification rule gives for an Outcome list
StatisticsByRule(outcomes) ==
  [ activeCount |->
      Cardinality({k \in 1..Len(outcomes) :
                     outcomes[k].found /\ EqualsActiveIgnoringCase(outcomes[k].status)}),
    inactiveCount |->
      Cardinality({k \in 1..Len(outcomes) :
                     outcomes[k].found /\ ~EqualsActiveIgnoringCase(outcomes[k].status)}),
    notFoundCount |-> Cardinality({k \in 1..Len(outcomes) : ~outcomes[k].found}),
    totalProcessed |-> Len(outcomes) ]

\* C14: when process has run calculateStatistics on the Outcome list, the
\* statistics are those of the rule: active iff found with status "active" in
\* any case, inactive iff found with any other status, not found iff not found.
C14_ClassifiedByRule ==
  pc \in {"done", "threw"} =>
    /\ response.present
    /\ response.statistics = StatisticsByRule(results)

\* the rule does hold for every list that calculateStatistics returns for
C14_RuleWhenComputed ==
  pc = "done" => response.statistics = StatisticsByRule(results)

\* C15: for every Outcome list that calculateStatistics returns statistics
\* for, every Outcome is in exactly one of the three buckets and
\* activeCount + inactiveCount + notFoundCount = totalProcessed.
C15_BucketsPartition ==
  pc = "done" =>
    LET st == response.statistics IN
    /\ st.activeCount + st.inactiveCount + st.notFoundCount = st.totalProcessed
    /\ st.totalProcessed = Len(results)
    /\ \A k \in 1..Len(results) :
         LET r == results[k] IN
         /\ IsActive(r) \/ IsInactive(r) \/ IsNotFound(r)
         /\ ~(IsActive(r) /\ IsInactive(r))
         /\ ~(IsActive(r) /\ IsNotFound(r))
         /\ ~(IsInactive(r) /\ IsNotFound(r))

\* statistics were returned for a list with an Outcome in every bucket, the
\* inactive one having an empty status
C15_Witness ==
  /\ pc = "done"
  /\ response.statistics =
       [ activeCount |-> 1, inactiveCount |-> 1, notFoundCount |-> 1,
         totalProcessed |-> 3 ]
  /\ \E k \in 1..Len(results) : results[k].found /\ results[k].status = EmptyStr

\* C16: in every response returned by process, statistics.totalProcessed is
\* the length of results, which is the number of identifiers submitted.
C16_TotalIsSubmitted ==
  (pc = "done" /\ response.present) =>
    /\ response.statistics.totalProcessed = Len(response.results)
    /\ Len(response.results) = Len(regs)

\* a response was returned for three identifiers, not all of them found
C16_Witness ==
  /\ pc = "done"
  /\ response.present
  /\ Len(regs) = 3
  /\ response.statistics.totalProcessed = 3
  /\ response.statistics.notFoundCount >= 1
  /\ response.statistics.activeCount >= 1

\* C17: when process has been run a second time on the same list against a
\* remote that treats each identifier in one way, the second run ends as the
\* first did, with the same Outcome list (order and values) and the same
\* statistics, whatever the order in which the lookups of a wave completed.
C17_SameOutcomeAgain ==
  (previous.present /\ pc \in {"done", "threw"}) =>
    /\ pc = previous.pc
    /\ results = previous.results
    /\ response = previous.response

\* the second run has returned; its last wave held two lookups that settled
\* with different Outcomes, the second of them first
C17_Witness ==
  /\ previous.present
  /\ pc = "done"
  /\ response.present
  /\ Len(results) >= 2
  /\ completed = <<2, 1>>
  /\ results[Len(results)] # results[Len(results) - 1]
  /\ results[Len(results)].found

\* a body without error flag that has several rows, the first one well-formed
SeveralRows(body, registrationNumber) ==
  /\ ~Truthy(body.error)
  /\ body.hasData
  /\ Len(body.data) >= 2
  /\ ~MapRowThrows(body.data[1], registrationNumber)

\* C18: an attempt whose response has several rows ends the lookup with
\* found=true and the fields of the first row; the later rows have no
\* influence on the Outcome.
C18_FirstRowOnly ==
  \A k \in DOMAIN slots :
    LET slot == slots[k] IN
    (slot.last \in BodyNames /\ SeveralRows(Body(slot.last), slot.reg)) =>
      /\ slot.st = "done"
      /\ slot.result = FoundResult(MapRow(Body(slot.last).data[1], slot.reg))

\* the first row of the file from which extract takes the entry regStr
FirstContributor(file, regStr) ==
  LET rows == {k \in 1..Len(file.data) :
                 LET before == ExtractRows(file.data, file.fileType, k - 1)
                     after == ExtractRows(file.data, file.fileType, k)
                 IN /\ ~Includes(before.registrationNumbers, regStr)
                    /\ Includes(after.registrationNumbers, regStr)}
  IN CHOOSE k \in rows : \A h \in rows : k <= h

\* C19: the list returned by extract has no duplicates and no empty or
\* whitespace-only entry, every entry is trimmed, and the entries are in the
\* order of the first rows that contributed them.
C19_ExtractedListClean ==
  extraction.done =>
    LET list == extraction.result.registrationNumbers IN
    /\ \A a, b \in 1..Len(list) : list[a] = list[b] => a = b
    /\ \A a \in 1..Len(list) :
         /\ list[a] # <<>>
         /\ ~IsSpace(list[a][1])
         /\ ~IsSpace(list[a][Len(list[a])])
    /\ \A a, b \in 1..Len(list) :
         a < b => FirstContributor(extraction, list[a]) < FirstContributor(extraction, list[b])

\* a CSV file of three rows was extracted: the first and the last row carry
\* the same number (the last with surrounding blanks), the middle row another
C19_Witness ==
  /\ extraction.done
  /\ extraction.fileType = "csv"
  /\ Len(extraction.data) = 3
  /\ extraction.data[3]["Professional council number"] = Str(<<" ", "M", "P", "1", " ">>)
  /\ extraction.result.registrationNumbers = << <<"M", "P", "1">>, <<"Z", "Z", "9">> >>
  /\ extraction.result.skippedCount = 0

\* C20: for an Excel file every row with a non-empty registration number
\* contributes it to the list, whatever the row has or lacks in an Attended
\* or council-name column.
C20_ExcelUsesRegistrationOnly ==
  (extraction.done /\ extraction.fileType = "excel") =>
    \A k \in 1..Len(extraction.data) :
      LET value == getFieldValue(extraction.data[k], ExcelRegistrationFields)
          number == Trim(ToStringJS(value))
      IN (Truthy(value) /\ number # <<>>) =>
           Includes(extraction.result.registrationNumbers, number)

\* the council-name column does not decide about a row of an Excel file
C20_ExcelIgnoresCouncil ==
  (extraction.done /\ extraction.fileType = "excel") =>
    \A k \in 1..Len(extraction.data) :
      LET row == extraction.data[k]
          value == getFieldValue(row, ExcelRegistrationFields)
          number == Trim(ToStringJS(value))
      IN (Truthy(value) /\ number # <<>> /\ shouldProcessRow(row, AttendedFields)) =>
           Includes(extraction.result.registrationNumbers, number)

\* the columns of a Zoom attendee report, as the README names them
AttendedOf(row) == RowGet(row, "Attended")
CouncilOf(row) == RowGet(row, "Professional council name")
NumberOf(row) == RowGet(row, "Professional council number")

\* rows of the file whose number is the entry regStr
RowsWithNumber(file, regStr) ==
  {k \in 1..Len(file.data) :
     /\ Truthy(NumberOf(file.data[k]))
     /\ Trim(ToStringJS(NumberOf(file.data[k]))) = regStr}

AttendedAccepted(v) ==
  /\ ~IsBlank(v)
  /\ ToLowerCase(Trim(ToStringJS(v))) \notin
       { <<"n", "o">>, <<"f", "a", "l", "s", "e">>, <<"0">> }

\* the council name is HPCSA, in any case and with blanks around it
CouncilAccepted(v) ==
  /\ ~IsBlank(v)
  /\ ToUpperCase(Trim(ToStringJS(v))) = <<"H", "P", "C", "S", "A">>

RowAccepted(row) == AttendedAccepted(AttendedOf(row)) /\ CouncilAccepted(CouncilOf(row))

\* the row has a number that is not blank
HasNumber(row) == Truthy(NumberOf(row)) /\ Trim(ToStringJS(NumberOf(row))) # <<>>

C22_ApiConfigGoverns ==
  /\ Cardinality(inFlight) <= apiConfig.maxConcurrentRequests
  /\ \A k \in 1..Len(pauseLog) : pauseLog[k] = apiConfig.delayBetweenBatchesMs

\* C23: a second attempt exists only after the first one failed and the
\* backoff then elapsed: during the backoff the identifier has had one
\* request, which failed; a second attempt means two requests and a failed
\* first one; a lookup that settled on its first attempt had a response that
\* was parsed (with rows or with none), one request, and no backoff.
C23_RetryOnlyAfterFailure ==
  pc = "wave" =>
    \A k \in DOMAIN slots :
      LET slot == slots[k]
          p == i + k
      IN /\ slot.attempt \in {1, 2}
         /\ slot.st = "backoff" =>
              /\ slot.attempt = 1
              /\ requests[p] = 1
              /\ failures[p] = 1
              /\ <<p, 1>> \notin inFlight /\ <<p, 2>> \notin inFlight
         /\ slot.attempt = 2 =>
              /\ requests[p] = 2
              /\ failures[p] >= 1
         /\ slot.attempt = 1 /\ slot.st \in {"fetch", "body"} =>
              /\ requests[p] = 1
              /\ failures[p] = 0
         /\ slot.attempt = 1 /\ slot.st = "done" =>
              /\ requests[p] = 1
              /\ failures[p] = 0
              /\ slot.last \in BodyNames

\* one lookup of the wave settled on its first attempt with no rows while
\* the other is in its second attempt
C23_Witness ==
  /\ pc = "wave"
  /\ Len(slots) = 2
  /\ slots[1].st = "done" /\ slots[1].attempt = 1 /\ slots[1].last = "empty"
  /\ slots[2].st = "fetch" /\ slots[2].attempt = 2
  /\ requests[i + 2] = 2

\* the first row of the body that settled the lookup
FirstRow(slot) == Body(slot.last).data[1]

\* C24 as stated: a found=false Outcome carries the input identifier; a
\* found=true Outcome carries the first row's position-3 value without
\* whitespace, or, when that value is missing or empty, the input identifier.
C24_IdentifierOrInput ==
  \A k \in DOMAIN slots :
    LET slot == slots[k] IN
    slot.st = "done" =>
      IF slot.result.found
      THEN slot.result.registration =
             IF Truthy(Cell(FirstRow(slot), 3))
             THEN Str(RemoveWhitespace(ToStringJS(Cell(FirstRow(slot), 3))))
             ELSE Str(slot.reg)
      ELSE slot.result.registration = Str(slot.reg)

\* C24: a found=false Outcome carries exactly the input identifier; a
\* found=true Outcome carries the first row's position-3 value, or the input
\* identifier when that value is missing or empty, in both cases with all
\* whitespace removed.
C24_IdentifierStripped ==
  \A k \in DOMAIN slots :
    LET slot == slots[k] IN
    slot.st = "done" =>
      IF slot.result.found
      THEN slot.result.registration =
             Str(RemoveWhitespace(IF Truthy(Cell(FirstRow(slot), 3))
                                  THEN ToStringJS(Cell(FirstRow(slot), 3))
                                  ELSE slot.reg))
      ELSE slot.result.registration = Str(slot.reg)

\* the identifier "MP 1" was found by a row without position 3, and the list's
\* other lookup of it was not found
C24_Witness ==
  /\ pc = "done"
  /\ regs = <<SpacedId, SpacedId>>
  /\ results[1].found /\ results[1].registration = Str(<<"M", "P", "1">>)
  /\ ~results[2].found /\ results[2].registration = Str(SpacedId)

RECURSIVE SumTo(_, _)
SumTo(counts, n) == IF n = 0 THEN 0 ELSE SumTo(counts, n - 1) + counts[n]

\* C25: no position of the list ever receives more than two requests; when
\* searchBatch has returned, every position has received one or two, also a
\* position whose identifier occurs earlier in the list, so that the remote
\* has received between n and 2n requests.
C25_OneOrTwoRequestsEach ==
  LET n == Len(regs) IN
  /\ pc # "idle" => DOMAIN requests = 1..n
  /\ \A p \in DOMAIN requests : requests[p] <= 2
  /\ Returned =>
       /\ \A p \in 1..n : requests[p] \in {1, 2}
       /\ n <= SumTo(requests, n) /\ SumTo(requests, n) <= 2 * n

\* a list whose first and third identifier are the same has been run: the
\* first was looked up with one request, the third with two
C25_Witness ==
  /\ Returned
  /\ Len(regs) = 3
  /\ regs[1] = regs[3]
  /\ requests[1] = 1
  /\ requests[3] = 2
  /\ SumTo(requests, 3) >= 4

\* C26: the count reported by each progress callback is the number of
\* Outcomes in the result list when it is made, and the result list grows by
\* whole waves only: while a wave runs it holds the Outcomes of the earlier
\* waves and none of the running one, however many of its lookups are done.
C26_ProgressCountsResults ==
  (pc # "idle" /\ BatchConcurrency >= 1) =>
    /\ Len(results) = SumTo(waveLog, IF pc = "wave" THEN Len(waveLog) - 1 ELSE Len(waveLog))
    /\ pc = "wave" => Len(results) = i
    /\ hasProgress =>
         /\ \A k \in 1..Len(progressLog) :
              /\ progressLog[k][1] = SumTo(waveLog, k)
              /\ progressLog[k][2] = Len(regs)
         /\ Len(progressLog) = IF pc = "wave" THEN Len(waveLog) - 1 ELSE Len(waveLog)
         /\ progressLog # <<>> => progressLog[Len(progressLog)][1] = Len(results)
    /\ ~hasProgress => progressLog = <<>>

\* the callback has reported the first wave of two; the lookup of the second
\* wave is done and its Outcome is not in the result list yet
C26_Witness ==
  /\ pc = "wave"
  /\ hasProgress
  /\ progressLog = << <<2, 3>> >>
  /\ Len(results) = 2
  /\ Len(slots) = 1
  /\ slots[1].st = "done"

\* while searchBatch runs there are no statistics; the response carries the
\* Outcomes that the lookups produced and the statistics of exactly these
StatisticsAfterDispatch ==
  /\ pc \in {"idle", "wave", "delay", "returned", "threw"} => response = NoResponse
  /\ pc = "done" =>
       /\ response.present
       /\ waveLog # <<>> => SumTo(waveLog, Len(waveLog)) = Len(regs)
       /\ results = produced
       /\ response.results = results
       /\ response.statistics = calculateStatistics(produced).statistics

\* the response is written by one step, the one that follows the return of
\* searchBatch, and that step leaves the Outcome list as it was
StatisticsOnce ==
  response' # response => (pc = "returned" /\ pc' = "done" /\ results' = results)

\* C27: statistics are computed once per process call, after the last wave,
\* from the finished Outcome list; nothing is counted while waves run, and
\* the results returned are the Outcomes the dispatcher produced, unchanged.
C27_StatisticsOnceAfterDispatch ==
  []StatisticsAfterDispatch /\ [][StatisticsOnce]_vars

\* a response was returned for three identifiers looked up in two waves
C27_Witness ==
  /\ pc = "done"
  /\ response.present
  /\ Len(response.results) = 3
  /\ Len(waveLog) = 2
  /\ response.statistics.totalProcessed = 3

\* what searchSingle returns for a lookup that succeeded and found nothing
FoundNothing(registrationNumber) ==
  SingleTryValue(parseSearchResults(Body("empty"), registrationNumber))

\* C28: a single lookup issues one request and no other; when the request
\* timed out or was answered with a non-success status, what the caller gets
\* is not what it gets from a successful lookup that found nothing.
C28_SingleFailureIsTold ==
  /\ single.requests <= 1
  /\ (single.st = "returned" /\ single.cause \in {"timeout", "status"}) =>
       single.value # FoundNothing(single.reg)

\* one request, no retry: this half of the claim holds
C28_SingleRequestOnly ==
  /\ single.requests <= 1
  /\ single.st # "idle" => single.requests = 1

\* the locals of the call in progress, in the shape of the waiting one
CurrentRun ==
  [ id |-> Current, regs |-> regs, hasProgress |-> hasProgress, pc |-> pc,
    i |-> i, results |-> results, slots |-> slots, completed |-> completed,
    response |-> response, requests |-> requests, failures |-> failures,
    produced |-> produced, inFlight |-> inFlight,
    progressLog |-> progressLog, pauseLog |-> pauseLog, waveLog |-> waveLog ]

\* the run has what a run alone would have: the Outcomes collected so far are
\* those of its own leading identifiers, in input order, and every progress
\* report counts its own list
RunIsItsOwn(run) ==
  run.pc # "idle" =>
    /\ Len(run.results) <= Len(run.regs)
    /\ \A p \in 1..Len(run.results) :
         /\ run.results[p] = run.produced[p]
         /\ run.results[p].found =>
              run.results[p].registration.s = RemoveWhitespace(run.regs[p])
         /\ ~run.results[p].found => run.results[p].registration = Str(run.regs[p])
    /\ \A k \in 1..Len(run.progressLog) :
         run.progressLog[k] = <<Min(k, Len(run.regs)), Len(run.regs)>>
    /\ run.pc \in {"returned", "done", "threw"} => Len(run.results) = Len(run.regs)
    /\ run.pc = "done" => run.response.results = run.results

\* C29: of two process calls that run at the same time on one service
\* instance, each has one Outcome per identifier of its own list, in its input
\* order, reports progress for its own list, and holds no Outcome of the
\* other call.
C29_RunsDoNotInterfere == RunIsItsOwn(CurrentRun) /\ RunIsItsOwn(other)

\* both calls have returned two Outcomes after their waves were interleaved:
\* each call was in its second wave while the other was still in its first
C29_Witness ==
  /\ pc = "done" /\ other.pc = "done"
  /\ Len(results) = 2 /\ Len(other.results) = 2
  /\ regs # other.regs
  /\ \E p \in 1..2 : results[p].found \/ other.results[p].found

\* what the calls made so far have returned
ContainerCallsAgree ==
  LET c == container IN
  /\ (c.prevGet # 0 /\ ~c.resetBeforeLast) => c.lastGet = c.prevGet
  /\ (c.lastGet # 0 /\ ~c.resetSince) => c.instance = c.lastGet
  /\ c.lastGet # 0 =>
       /\ c.lastGet \in 1..Len(c.configs)
       /\ c.lastGetCreated => c.configs[c.lastGet] = c.lastArg
  /\ c.lastCreate # 0 =>
       /\ c.lastCreate \in 1..Len(c.configs)
       /\ c.lastCreate \notin {c.instance, c.lastGet, c.prevGet}

\* what one call changes
ContainerCallsKeep ==
  LET c == container
      d == container'
  IN /\ \A id \in 1..Len(c.configs) : id <= Len(d.configs) /\ d.configs[id] = c.configs[id]
     /\ (d.lastOp = "get" /\ c.instance # 0) =>
          /\ d.instance = c.instance
          /\ d.lastGet = c.instance
          /\ d.configs = c.configs
     /\ (d.lastOp = "create" /\ d # c) =>
          /\ d.instance = c.instance
          /\ d.lastGet = c.lastGet
          /\ d.lastCreate = Len(c.configs) + 1

\* C30: getServiceContainer returns the instance its previous call returned
\* unless resetServiceContainer was called in between; its config argument
\* reaches the constructor only on the call that makes the instance, and a
\* later call changes neither the instance nor its config;
\* createServiceContainer returns an instance that no call has returned
\* before and leaves what getServiceContainer returns as it was.
C30_ContainerSingleton ==
  []ContainerCallsAgree /\ [][ContainerCallsKeep]_vars

\* getServiceContainer was called twice without a reset, the second time
\* with a config other than that of the instance, and createServiceContainer
\* has since returned another instance
C30_Witness ==
  /\ container.prevGet # 0
  /\ container.lastGet = container.prevGet
  /\ ~container.resetBeforeLast
  /\ ~container.lastGetCreated
  /\ container.lastArg # container.configs[container.lastGet]
  /\ container.lastOp = "create"
  /\ container.lastCreate # container.lastGet

====
